---- MODULE Spec2Model ----
(***************************************************************************)
(* The attendance store of the face-recognition attendance application:    *)
(* the reducer of src/src/context/AttendanceContext.tsx, its seed state    *)
(* and the actions dispatched against it.                                  *)
(***************************************************************************)
EXTENDS Integers, Sequences, FiniteSets, TLC

VARIABLES
    state,      \* the store's current AttendanceState snapshot
    prev,       \* history: the snapshot the last action was applied to
    last,       \* history: the last action applied
    at,         \* history: the clock reading when the last action was applied
    nAdd,       \* history: number of ADD_PERSON actions applied
    nDel,       \* history: number of DELETE_PERSON actions applied
    nDelHit,    \* history: DELETE_PERSON actions whose id matched a roster entry
    steps,      \* history: number of actions applied
    reg,        \* the Add Person view: its React state, timer and history
    calc,       \* a call of calculateDuration: its arguments and result
    train,      \* the Train Images view: its React state and training run
    att         \* the Mark Attendance view: its React state and wall clock

storeVars == <<state, prev, last, at, nAdd, nDel, nDelHit, steps>>

viewVars == <<reg, calc, train, att>>

notReg == <<calc, train, att>>

notCalc == <<reg, train, att>>

notTrain == <<reg, calc, att>>

notAtt == <<reg, calc, train>>

vars == <<storeVars, viewVars>>

\* Number of actions applied in one explored run.
MaxSteps == 3

\* statistics.totalPersons of the seed state.
SeedTotalPersons == 3

\* imageCount of the seed persons, and totalImages of the registration view.
TotalImages == 101

\* A JavaScript undefined (an optional field that is absent).
Undefined == "undefined"

\* JavaScript truthiness of an optional string: undefined and "" are falsy.
Truthy(v) == v # Undefined /\ v # ""

\* Readings of the wall clock (new Date()).
Clock == {"2024-03-01T09:00", "2024-03-01T10:00"}

\* Faulty variant of Merge: the spread in the wrong order, { ...updates, ...obj }.
Merge_ObjectWins(obj, updates) ==
    [f \in DOMAIN obj \cup DOMAIN updates |->
        IF f \in DOMAIN obj THEN obj[f] ELSE updates[f]]

\* Object spread { ...obj, ...updates }: the keys of updates override obj's.
Merge(obj, updates) ==
    [f \in DOMAIN obj \cup DOMAIN updates |->
        IF f \in DOMAIN updates THEN updates[f] ELSE obj[f]]

\* Array.prototype.filter with the predicate "id differs from the given one".
RECURSIVE FilterOutId(_, _)
FilterOutId(seq, id) ==
    IF seq = <<>> THEN <<>>
    ELSE IF Head(seq).id # id
         THEN <<Head(seq)>> \o FilterOutId(Tail(seq), id)
         ELSE FilterOutId(Tail(seq), id)

\* Faulty variant of MapMerge: only the first element with the given id is patched.
MapMerge_FirstOnly(seq, id, updates) ==
    [i \in DOMAIN seq |->
        IF seq[i].id = id /\ \A j \in 1..(i - 1) : seq[j].id # id
        THEN [f \in DOMAIN seq[i] \cup DOMAIN updates |->
                 IF f \in DOMAIN updates THEN updates[f] ELSE seq[i][f]]
        ELSE seq[i]]

\* Array.prototype.map merging the patch into every element with the given id.
MapMerge(seq, id, updates) ==
    [i \in DOMAIN seq |->
        IF seq[i].id = id THEN Merge(seq[i], updates) ELSE seq[i]]

initialState ==
    [persons |-> <<
        [id |-> "1", name |-> "Abhinav", email |-> "abhinav@example.com",
         department |-> "Engineering", imageCount |-> TotalImages,
         isActive |-> TRUE, createdAt |-> "2023-01-01"],
        [id |-> "2", name |-> "Venkat", email |-> "venkat@example.com",
         department |-> "Engineering", imageCount |-> TotalImages,
         isActive |-> TRUE, createdAt |-> "2023-01-02"],
        [id |-> "3", name |-> "Ashritha", email |-> "ashritha@example.com",
         department |-> "Design", imageCount |-> TotalImages,
         isActive |-> TRUE, createdAt |-> "2023-01-03"] >>,
     attendanceRecords |-> <<>>,
     trainingSessions |-> <<>>,
     currentSession |-> [isActive |-> FALSE, lectureDuration |-> Undefined,
                         startTime |-> Undefined],
     statistics |-> [totalPersons |-> SeedTotalPersons, presentToday |-> 0,
                     totalClockIns |-> 0, totalClockOuts |-> 0]]

(***************************************************************************)
(* The cases of attendanceReducer.                                         *)
(***************************************************************************)
\* Faulty variant of AddPersonCase: the person is appended but not counted.
AddPersonCase_NoCount(s, payload) ==
    [s EXCEPT !.persons = Append(s.persons, payload)]

AddPersonCase(s, payload) ==
    [s EXCEPT !.persons = Append(s.persons, payload),
              !.statistics.totalPersons = s.statistics.totalPersons + 1]

UpdatePersonCase(s, payload) ==
    [s EXCEPT !.persons = MapMerge(s.persons, payload.id, payload.updates)]

\* Faulty variant of DeletePersonCase: totalPersons is decremented only on a match.
DeletePersonCase_CountHits(s, payload) ==
    [s EXCEPT !.persons = FilterOutId(s.persons, payload),
              !.statistics.totalPersons =
                  IF \E i \in DOMAIN s.persons : s.persons[i].id = payload
                  THEN s.statistics.totalPersons - 1
                  ELSE s.statistics.totalPersons]

DeletePersonCase(s, payload) ==
    [s EXCEPT !.persons = FilterOutId(s.persons, payload),
              !.statistics.totalPersons = s.statistics.totalPersons - 1]

\* Faulty variant of AddAttendanceRecordCase: a clock-in is any record with a
\* clock-in time, whether or not it has a clock-out time.
AddAttendanceRecordCase_InOnly(s, newRecord) ==
    LET isClockIn  == Truthy(newRecord.clockInTime)
        isClockOut == Truthy(newRecord.clockOutTime)
    IN [s EXCEPT
          !.attendanceRecords = Append(s.attendanceRecords, newRecord),
          !.statistics.totalClockIns =
              IF isClockIn THEN s.statistics.totalClockIns + 1
                           ELSE s.statistics.totalClockIns,
          !.statistics.totalClockOuts =
              IF isClockOut THEN s.statistics.totalClockOuts + 1
                            ELSE s.statistics.totalClockOuts,
          !.statistics.presentToday =
              IF newRecord.status = "Present" THEN s.statistics.presentToday + 1
                                              ELSE s.statistics.presentToday]

AddAttendanceRecordCase(s, newRecord) ==
    LET isClockIn  == Truthy(newRecord.clockInTime) /\ ~Truthy(newRecord.clockOutTime)
        isClockOut == Truthy(newRecord.clockOutTime)
    IN [s EXCEPT
          !.attendanceRecords = Append(s.attendanceRecords, newRecord),
          !.statistics.totalClockIns =
              IF isClockIn THEN s.statistics.totalClockIns + 1
                           ELSE s.statistics.totalClockIns,
          !.statistics.totalClockOuts =
              IF isClockOut THEN s.statistics.totalClockOuts + 1
                            ELSE s.statistics.totalClockOuts,
          !.statistics.presentToday =
              IF newRecord.status = "Present" THEN s.statistics.presentToday + 1
                                              ELSE s.statistics.presentToday]

\* Faulty variant of UpdateAttendanceRecordCase: a patch with a clock-out
\* time is counted as a clock-out.
UpdateAttendanceRecordCase_CountClockOut(s, payload) ==
    [s EXCEPT !.attendanceRecords =
                  MapMerge(s.attendanceRecords, payload.id, payload.updates),
              !.statistics.totalClockOuts =
                  IF "clockOutTime" \in DOMAIN payload.updates
                  THEN s.statistics.totalClockOuts + 1
                  ELSE s.statistics.totalClockOuts]

\* Faulty variant of UpdateAttendanceRecordCase: presentToday is recomputed from the
\* patched records.
UpdateAttendanceRecordCase_Recount(s, payload) ==
    LET records == MapMerge(s.attendanceRecords, payload.id, payload.updates)
    IN [s EXCEPT
          !.attendanceRecords = records,
          !.statistics.presentToday =
              Cardinality({i \in DOMAIN records : records[i].status = "Present"})]

UpdateAttendanceRecordCase(s, payload) ==
    [s EXCEPT !.attendanceRecords =
                  MapMerge(s.attendanceRecords, payload.id, payload.updates)]

\* Faulty variant of StartTrainingSessionCase: the new session replaces the list.
StartTrainingSessionCase_Replace(s, payload) ==
    [s EXCEPT !.trainingSessions = <<payload>>]

StartTrainingSessionCase(s, payload) ==
    [s EXCEPT !.trainingSessions = Append(s.trainingSessions, payload)]

UpdateTrainingSessionCase(s, payload) ==
    [s EXCEPT !.trainingSessions =
                  MapMerge(s.trainingSessions, payload.id, payload.updates)]

\* Faulty variant of StartAttendanceSessionCase: a start is ignored while a
\* session is active.
StartAttendanceSessionCase_RejectIfActive(s, payload, now) ==
    IF s.currentSession.isActive
    THEN s
    ELSE [s EXCEPT !.currentSession =
                  [isActive |-> TRUE, lectureDuration |-> payload.lectureDuration,
                   startTime |-> now]]

StartAttendanceSessionCase(s, payload, now) ==
    [s EXCEPT !.currentSession =
                  [isActive |-> TRUE, lectureDuration |-> payload.lectureDuration,
                   startTime |-> now]]

\* Faulty variant of EndAttendanceSessionCase: only the flag is cleared.
EndAttendanceSessionCase_KeepFields(s) ==
    [s EXCEPT !.currentSession.isActive = FALSE]

\* Faulty variant of EndAttendanceSessionCase: ending the session also resets
\* the present-today counter.
EndAttendanceSessionCase_ResetToday(s) ==
    [s EXCEPT !.currentSession =
                  [isActive |-> FALSE, lectureDuration |-> Undefined,
                   startTime |-> Undefined],
              !.statistics.presentToday = 0]

EndAttendanceSessionCase(s) ==
    [s EXCEPT !.currentSession =
                  [isActive |-> FALSE, lectureDuration |-> Undefined,
                   startTime |-> Undefined]]

\* Faulty variant of DefaultCase: an unhandled action resets the store.
DefaultCase_Reset(s) == initialState

DefaultCase(s) == s

\* attendanceReducer(state, action); now is the clock reading of new Date().
attendanceReducer(s, action, now) ==
    CASE action.type = "ADD_PERSON" -> AddPersonCase(s, action.payload)
      [] action.type = "UPDATE_PERSON" -> UpdatePersonCase(s, action.payload)
      [] action.type = "DELETE_PERSON" -> DeletePersonCase(s, action.payload)
      [] action.type = "ADD_ATTENDANCE_RECORD" ->
             AddAttendanceRecordCase(s, action.payload)
      [] action.type = "UPDATE_ATTENDANCE_RECORD" ->
             UpdateAttendanceRecordCase(s, action.payload)
      [] action.type = "START_TRAINING_SESSION" ->
             StartTrainingSessionCase(s, action.payload)
      [] action.type = "UPDATE_TRAINING_SESSION" ->
             UpdateTrainingSessionCase(s, action.payload)
      [] action.type = "START_ATTENDANCE_SESSION" ->
             StartAttendanceSessionCase(s, action.payload, now)
      [] action.type = "END_ATTENDANCE_SESSION" -> EndAttendanceSessionCase(s)
      [] OTHER -> DefaultCase(s)

(***************************************************************************)
(* Inputs.                                                                 *)
(***************************************************************************)
\* The Person that handleSavePerson builds from the registration form.
handleSavePerson(id, name, email, department, now) ==
    [id |-> id, name |-> name,
     email |-> IF email = "" THEN Undefined ELSE email,
     department |-> IF department = "" THEN Undefined ELSE department,
     imageCount |-> TotalImages, isActive |-> TRUE, createdAt |-> now]

PersonPayloads ==
    { handleSavePerson("4", "Dana", "", "", "2024-03-01T09:00"),
      handleSavePerson("1", "Eve", "eve@example.com", "Design", "2024-03-01T09:00") }

\* Ids addressed by update and delete actions; "9" is never in the roster.
PersonIds == {"1", "2", "4", "9"}

PersonPatches ==
    { [name |-> "Renamed"],
      [id |-> "2", isActive |-> FALSE] }

AttendancePayloads ==
    { [id |-> "r1", personId |-> "1", personName |-> "Abhinav", date |-> "2024-03-01",
       clockInTime |-> "09:00:00", clockOutTime |-> Undefined, duration |-> Undefined,
       status |-> "Present", confidence |-> Undefined],
      [id |-> "r2", personId |-> "2", personName |-> "Venkat", date |-> "2024-03-01",
       clockInTime |-> "09:00:00", clockOutTime |-> "17:00:00", duration |-> "08:00:00",
       status |-> "Late", confidence |-> Undefined],
      [id |-> "r1", personId |-> "3", personName |-> "Ashritha", date |-> "2024-03-01",
       clockInTime |-> Undefined, clockOutTime |-> Undefined, duration |-> Undefined,
       status |-> "Absent", confidence |-> Undefined],
      [id |-> "r3", personId |-> "3", personName |-> "Ashritha", date |-> "2024-03-01",
       clockInTime |-> Undefined, clockOutTime |-> "17:00:00", duration |-> Undefined,
       status |-> "Present", confidence |-> Undefined],
      [id |-> "r4", personId |-> "2", personName |-> "Venkat", date |-> "2024-03-01",
       clockInTime |-> "09:00:00", clockOutTime |-> "", duration |-> Undefined,
       status |-> "MCR", confidence |-> Undefined] }

AttendanceIds == {"r1", "r9"}

AttendancePatches ==
    { [status |-> "Present"],
      [clockOutTime |-> "17:00:00", duration |-> "08:00:00"] }

TrainingPayloads ==
    { [id |-> "t1", personId |-> "1", personName |-> "Abhinav", imagesCaptured |-> 0,
       totalImages |-> TotalImages, status |-> "in-progress",
       startTime |-> "2024-03-01T09:00", endTime |-> Undefined],
      [id |-> "t1", personId |-> "2", personName |-> "Venkat", imagesCaptured |-> 0,
       totalImages |-> TotalImages, status |-> "in-progress",
       startTime |-> "2024-03-01T09:00", endTime |-> Undefined] }

TrainingIds == {"t1", "t9"}

TrainingPatches ==
    { [imagesCaptured |-> TotalImages, status |-> "completed",
       endTime |-> "2024-03-01T10:00"] }

LectureDurations == {"01:00:00", "02:00:00"}

\* The ids of the seed roster.
SeedIds == {initialState.persons[i].id : i \in DOMAIN initialState.persons}

UnhandledTypes == {"UPDATE_STATISTICS", "UNKNOWN_ACTION"}

(***************************************************************************)
(* Strings as sequences of characters, for the code that looks inside them. *)
(***************************************************************************)
Digits == {"0", "1", "2", "3", "4", "5", "6", "7", "8", "9"}

Letters ==
    {"a", "b", "c", "d", "e", "f", "g", "h", "i", "j", "k", "l", "m",
     "n", "o", "p", "q", "r", "s", "t", "u", "v", "w", "x", "y", "z",
     "A", "B", "C", "D", "E", "F", "G", "H", "I", "J", "K", "L", "M",
     "N", "O", "P", "Q", "R", "S", "T", "U", "V", "W", "X", "Y", "Z"}

\* The characters \s matches and trim() strips.
Whitespace == {" ", "\t", "\n"}

\* The string a sequence of characters spells.
RECURSIVE Text(_)
Text(cs) == IF cs = <<>> THEN "" ELSE Head(cs) \o Text(Tail(cs))

\* String.prototype.trim.
RECURSIVE TrimStart(_)
TrimStart(cs) ==
    IF cs # <<>> /\ Head(cs) \in Whitespace THEN TrimStart(Tail(cs)) ELSE cs

RECURSIVE TrimEnd(_)
TrimEnd(cs) ==
    IF cs # <<>> /\ cs[Len(cs)] \in Whitespace
    THEN TrimEnd(SubSeq(cs, 1, Len(cs) - 1)) ELSE cs

Trim(cs) == TrimEnd(TrimStart(cs))

\* /^\d+$/.test(cs)
MatchDigits(cs) == cs # <<>> /\ \A i \in DOMAIN cs : cs[i] \in Digits

\* /^[a-zA-Z\s]+$/.test(cs)
MatchName(cs) == cs # <<>> /\ \A i \in DOMAIN cs : cs[i] \in Letters \cup Whitespace

\* [^\s@]+ matches exactly cs[from..to].
MatchPart(cs, from, to) ==
    /\ from <= to
    /\ \A i \in from..to : cs[i] \notin Whitespace \cup {"@"}

\* Faulty variant of MatchEmail: the pattern without its ".tld" part,
\* /^[^\s@]+@[^\s@]+$/.
MatchEmail_NoTld(cs) ==
    \E i \in DOMAIN cs :
        /\ cs[i] = "@"
        /\ MatchPart(cs, 1, i - 1)
        /\ MatchPart(cs, i + 1, Len(cs))

\* /^[^\s@]+@[^\s@]+\.[^\s@]+$/.test(cs)
MatchEmail(cs) ==
    \E i, j \in DOMAIN cs :
        /\ cs[i] = "@"
        /\ cs[j] = "."
        /\ MatchPart(cs, 1, i - 1)
        /\ MatchPart(cs, i + 1, j - 1)
        /\ MatchPart(cs, j + 1, Len(cs))

(***************************************************************************)
(* The Add Person view (src/src/pages/AddPerson.tsx).                      *)
(***************************************************************************)
\* An errors object with no key.
NoErrors == [f \in {} |-> ""]

\* validateForm: the errors object it builds and hands to setErrors.
validateForm(formData) ==
    LET idError ==
            IF Trim(formData.id) = <<>> THEN "ID is required"
            ELSE IF ~MatchDigits(formData.id) THEN "ID must be numeric"
            ELSE Undefined
        nameError ==
            IF Trim(formData.name) = <<>> THEN "Name is required"
            ELSE IF ~MatchName(formData.name) THEN "Name must contain only letters"
            ELSE Undefined
        emailError ==
            IF formData.email # <<>> /\ ~MatchEmail(formData.email)
            THEN "Invalid email format"
            ELSE Undefined
        message == [id |-> idError, name |-> nameError, email |-> emailError]
    IN [f \in {k \in {"id", "name", "email"} : message[k] # Undefined} |-> message[f]]

\* The view's state after its first render, with the history of the view:
\* closure is the formData the running interval's callback closed over, did
\* the last handler that ran.
regInit ==
    [mounted |-> TRUE,
     formData |-> [id |-> <<>>, name |-> <<>>, email |-> <<>>, department |-> ""],
     isCapturing |-> FALSE,
     capturedImages |-> 0,
     showCamera |-> FALSE,
     errors |-> NoErrors,
     interval |-> FALSE,
     closure |-> [id |-> <<>>, name |-> <<>>, email |-> <<>>, department |-> ""],
     did |-> "render"]

\* startCamera, when getUserMedia resolves.
regStartCamera(r) == [r EXCEPT !.showCamera = TRUE, !.did = "startCamera"]

\* stopCamera.
regStopCamera(r) ==
    [r EXCEPT !.interval = FALSE, !.showCamera = FALSE, !.isCapturing = FALSE,
              !.did = "stopCamera"]

\* Faulty variant of startCapturing: the return after the alert is missing.
startCapturing_NoReturn(r) ==
    [r EXCEPT !.errors = validateForm(r.formData),
              !.isCapturing = TRUE,
              !.capturedImages = 0,
              !.interval = TRUE,
              !.closure = r.formData,
              !.did = "startCapturing"]

\* startCapturing.
startCapturing(r) ==
    IF validateForm(r.formData) # NoErrors
    THEN [r EXCEPT !.errors = validateForm(r.formData),
                   !.did = "startCapturing"]
    ELSE [r EXCEPT !.errors = validateForm(r.formData),
                   !.isCapturing = TRUE,
                   !.capturedImages = 0,
                   !.interval = TRUE,
                   !.closure = r.formData,
                   !.did = "startCapturing"]

\* Faulty variant of stopCapture: the interval is not cleared.
stopCapture_KeepInterval(r) ==
    [r EXCEPT !.isCapturing = FALSE, !.did = "stopCapture"]

\* The Stop Capture button.
stopCapture(r) ==
    [r EXCEPT !.interval = FALSE, !.isCapturing = FALSE, !.did = "stopCapture"]

\* The Person the interval callback saves: handleSavePerson reads the formData
\* of the render in which startCapturing ran.
savedPerson(r, now) ==
    handleSavePerson(Text(r.closure.id), Text(r.closure.name), Text(r.closure.email),
                     r.closure.department, now)

(***************************************************************************)
(* The Mark Attendance view (src/unnamed/part_002): clock times.           *)
(***************************************************************************)
\* The value of a decimal digit, and the digit of a value.
DigitValue ==
    [c \in Digits |->
        CASE c = "0" -> 0 [] c = "1" -> 1 [] c = "2" -> 2 [] c = "3" -> 3
          [] c = "4" -> 4 [] c = "5" -> 5 [] c = "6" -> 6 [] c = "7" -> 7
          [] c = "8" -> 8 [] c = "9" -> 9]

DigitChar(d) == CHOOSE c \in Digits : DigitValue[c] = d

\* Number(cs) for a string of decimal digits.
RECURSIVE ToNumber(_)
ToNumber(cs) ==
    IF cs = <<>> THEN 0
    ELSE 10 * ToNumber(SubSeq(cs, 1, Len(cs) - 1)) + DigitValue[cs[Len(cs)]]

\* Number.prototype.toString for an integer.
RECURSIVE NatToString(_)
NatToString(n) ==
    IF n < 10 THEN <<DigitChar(n)>>
    ELSE NatToString(n \div 10) \o <<DigitChar(n % 10)>>

NumberToString(n) == IF n < 0 THEN <<"-">> \o NatToString(-n) ELSE NatToString(n)

\* cs.padStart(2, '0')
PadStart2(cs) ==
    IF Len(cs) >= 2 THEN cs
    ELSE IF Len(cs) = 1 THEN <<"0">> \o cs
    ELSE <<"0", "0">>

\* cs.split(':')
RECURSIVE Split(_)
Split(cs) ==
    IF \A i \in DOMAIN cs : cs[i] # ":" THEN <<cs>>
    ELSE LET k == CHOOSE i \in DOMAIN cs : cs[i] = ":" /\ \A j \in 1..(i - 1) : cs[j] # ":"
         IN <<SubSeq(cs, 1, k - 1)>> \o Split(SubSeq(cs, k + 1, Len(cs)))

\* The JavaScript remainder a % b for b > 0: it has the sign of a.
JsRem(a, b) == IF a >= 0 THEN a % b ELSE -((-a) % b)

\* format(date, 'HH:mm:ss') of a time of day.
FormatTime(h, m, s) ==
    PadStart2(NumberToString(h)) \o <<":">> \o PadStart2(NumberToString(m)) \o <<":">>
        \o PadStart2(NumberToString(s))

\* Faulty variant of calculateDuration: the minutes are not reduced modulo
\* the hour.
calculateDuration_WholeMinutes(clockIn, clockOut) ==
    LET in == Split(clockIn)
        out == Split(clockOut)
        inTime == ToNumber(in[1]) * 3600 + ToNumber(in[2]) * 60 + ToNumber(in[3])
        outTime == ToNumber(out[1]) * 3600 + ToNumber(out[2]) * 60 + ToNumber(out[3])
        duration == outTime - inTime
        hours == duration \div 3600
        minutes == duration \div 60
        seconds == JsRem(duration, 60)
    IN PadStart2(NumberToString(hours)) \o <<":">> \o PadStart2(NumberToString(minutes))
           \o <<":">> \o PadStart2(NumberToString(seconds))

\* calculateDuration; \div rounds down, as Math.floor of the quotient does.
calculateDuration(clockIn, clockOut) ==
    LET in == Split(clockIn)
        out == Split(clockOut)
        inTime == ToNumber(in[1]) * 3600 + ToNumber(in[2]) * 60 + ToNumber(in[3])
        outTime == ToNumber(out[1]) * 3600 + ToNumber(out[2]) * 60 + ToNumber(out[3])
        duration == outTime - inTime
        hours == duration \div 3600
        minutes == JsRem(duration, 3600) \div 60
        seconds == JsRem(duration, 60)
    IN PadStart2(NumberToString(hours)) \o <<":">> \o PadStart2(NumberToString(minutes))
           \o <<":">> \o PadStart2(NumberToString(seconds))

\* No call of calculateDuration yet.
calcInit ==
    [inTime |-> <<0, 0, 0>>, outTime |-> <<0, 0, 0>>,
     clockIn |-> <<>>, clockOut |-> <<>>, duration |-> <<>>, done |-> FALSE]

(***************************************************************************)
(* The Mark Attendance view: detection, clock-in and clock-out.            *)
(***************************************************************************)
\* detectedPerson is null.
Null == [isNull |-> TRUE]

\* The instants at which the handlers run: seconds since the epoch (UTC),
\* the calendar day and the Date object.
Instants ==
    << [sec |-> 1709283600, day |-> "2024-03-01", iso |-> "2024-03-01T09:00:00"],
       [sec |-> 1709289015, day |-> "2024-03-01", iso |-> "2024-03-01T10:30:15"],
       [sec |-> 1709294400, day |-> "2024-03-01", iso |-> "2024-03-01T12:00:00"],
       [sec |-> 1709312400, day |-> "2024-03-01", iso |-> "2024-03-01T17:00:00"],
       [sec |-> 1709370000, day |-> "2024-03-02", iso |-> "2024-03-02T09:00:00"] >>

\* Date.now().toString(): milliseconds since the epoch, at a whole second.
DateNowString(k) == Text(NatToString(Instants[k].sec) \o <<"0", "0", "0">>)

\* format(new Date(), 'yyyy-MM-dd')
FormatDay(k) == Instants[k].day

\* format(new Date(), 'HH:mm:ss') as characters.
FormatNow(k) ==
    LET sod == Instants[k].sec % 86400
    IN FormatTime(sod \div 3600, (sod % 3600) \div 60, sod % 60)

\* The characters of a stored clock time.
Chars(s) == CHOOSE cs \in {FormatNow(k) : k \in DOMAIN Instants} : Text(cs) = s

\* Values of Math.random(), in thousandths.
RandomDraws == {0, 999}

\* Math.floor(Math.random() * n)
randomFloor(r, n) == (r * n) \div 1000

\* Faulty variant of detectConfidence: a range of 40 values.
detectConfidence_Wide(r) == randomFloor(r, 40) + 70

\* Math.floor(Math.random() * 30) + 70
detectConfidence(r) == randomFloor(r, 30) + 70

Confidences == {detectConfidence(r) : r \in RandomDraws}

\* alert is the message of the last alert() shown, clock the index of the
\* instant at which a handler last ran.
attInit ==
    [isRecording |-> FALSE, lectureDuration |-> "", showDurationModal |-> TRUE,
     detectedPerson |-> Null, confidence |-> 0, blinkDetected |-> FALSE, clock |-> 0,
     alert |-> ""]

\* startCamera: getUserMedia resolves (ok) or rejects.
attStartCamera(a, ok) == IF ok THEN [a EXCEPT !.isRecording = TRUE] ELSE a

attStopCamera(a) == [a EXCEPT !.isRecording = FALSE, !.detectedPerson = Null]

\* The callback of the detection interval over the roster persons, with the
\* draws of Math.random() for the gate, the person and the blink flag and
\* the confidence drawn.
detect(a, persons, gate, pick, c, blink) ==
    IF Len(persons) > 0 /\ gate > 300
    THEN [a EXCEPT !.detectedPerson = persons[randomFloor(pick, Len(persons)) + 1],
                   !.confidence = c, !.blinkDetected = (blink > 700)]
    ELSE [a EXCEPT !.detectedPerson = Null, !.confidence = 0, !.blinkDetected = FALSE]

\* The record handleClockIn builds at instant k; absent fields are undefined.
clockInRecord(a, k) ==
    [id |-> DateNowString(k),
     personId |-> a.detectedPerson.id,
     personName |-> a.detectedPerson.name,
     date |-> FormatDay(k),
     clockInTime |-> Text(FormatNow(k)),
     clockOutTime |-> Undefined, duration |-> Undefined,
     status |-> "Present",
     confidence |-> a.confidence]

\* Faulty variant of findExistingRecord: the date is not compared.
findExistingRecord_AnyDate(records, a, k) ==
    LET hits == {i \in DOMAIN records : records[i].personId = a.detectedPerson.id}
    IN IF hits = {} THEN 0 ELSE CHOOSE i \in hits : \A j \in hits : i <= j

\* Faulty variant of findExistingRecord: the last matching record is taken.
findExistingRecord_Last(records, a, k) ==
    LET hits == {i \in DOMAIN records :
                    /\ records[i].personId = a.detectedPerson.id
                    /\ records[i].date = FormatDay(k)}
    IN IF hits = {} THEN 0 ELSE CHOOSE i \in hits : \A j \in hits : i >= j

\* Array.prototype.find in handleClockOut: the index of the first record of the
\* detected person dated today, 0 if there is none.
findExistingRecord(records, a, k) ==
    LET hits == {i \in DOMAIN records :
                    /\ records[i].personId = a.detectedPerson.id
                    /\ records[i].date = FormatDay(k)}
    IN IF hits = {} THEN 0 ELSE CHOOSE i \in hits : \A j \in hits : i <= j

\* The updates handleClockOut dispatches for the record it found.
clockOutUpdates(existingRecord, k) ==
    [clockOutTime |-> Text(FormatNow(k)),
     duration |-> Text(calculateDuration(Chars(existingRecord.clockInTime), FormatNow(k)))]

(***************************************************************************)
(* The Train Images view (src/src/pages/TrainImages.tsx).                  *)
(***************************************************************************)
StepsPerPerson == 10

\* state.persons.filter(p => p.isActive)
RECURSIVE FilterActive(_)
FilterActive(seq) ==
    IF seq = <<>> THEN <<>>
    ELSE IF Head(seq).isActive
         THEN <<Head(seq)>> \o FilterActive(Tail(seq))
         ELSE FilterActive(Tail(seq))

RECURSIVE Gcd(_, _)
Gcd(a, b) == IF b = 0 THEN a ELSE Gcd(b, a % b)

\* The exact value of n / d, in lowest terms.
Ratio(n, d) == [num |-> n \div Gcd(n, d), den |-> d \div Gcd(n, d)]

\* The component state, and the locals of the running startTraining: persons,
\* totalSteps, currentStep, the loop positions k and i, and pc, the await it
\* is suspended at; mounted tells whether the router still shows the view.
trainInit ==
    [mounted |-> TRUE, isTraining |-> FALSE, trainingProgress |-> Ratio(0, 1), trainingStatus |-> "idle",
     currentPerson |-> "", persons |-> <<>>, totalSteps |-> 0, currentStep |-> 0,
     k |-> 0, i |-> 0, pc |-> "none"]

\* startTraining from the click to its first await.
startTraining(t, s) ==
    LET persons == FilterActive(s.persons)
        started == [t EXCEPT !.isTraining = TRUE, !.trainingStatus = "training",
                             !.trainingProgress = Ratio(0, 1), !.persons = persons,
                             !.totalSteps = Len(persons) * StepsPerPerson,
                             !.currentStep = 0]
    IN IF persons = <<>>
       THEN [started EXCEPT !.currentPerson = "Finalizing model...", !.pc = "final"]
       ELSE [started EXCEPT !.currentPerson = persons[1].name, !.k = 1, !.i = 0,
                            !.pc = "step"]

\* Faulty variant of trainingStep: the percentage of the current person's
\* sub-steps instead of the overall one.
trainingStep_PerPerson(t) ==
    LET currentStep == t.currentStep + 1
        stepped == [t EXCEPT !.currentStep = currentStep,
                             !.trainingProgress = Ratio((t.i + 1) * 100, StepsPerPerson),
                             !.i = t.i + 1]
    IN IF stepped.i < StepsPerPerson THEN stepped
       ELSE IF t.k < Len(t.persons)
            THEN [stepped EXCEPT !.k = t.k + 1, !.i = 0,
                                 !.currentPerson = t.persons[t.k + 1].name]
            ELSE [stepped EXCEPT !.currentPerson = "Finalizing model...", !.pc = "final"]

\* startTraining resumed after a 200 ms wait, up to its next await.
trainingStep(t) ==
    LET currentStep == t.currentStep + 1
        stepped == [t EXCEPT !.currentStep = currentStep,
                             !.trainingProgress = Ratio(currentStep * 100, t.totalSteps),
                             !.i = t.i + 1]
    IN IF stepped.i < StepsPerPerson THEN stepped
       ELSE IF t.k < Len(t.persons)
            THEN [stepped EXCEPT !.k = t.k + 1, !.i = 0,
                                 !.currentPerson = t.persons[t.k + 1].name]
            ELSE [stepped EXCEPT !.currentPerson = "Finalizing model...", !.pc = "final"]

\* Faulty variant of trainingFinal: the status is left at training.
trainingFinal_StillTraining(t) ==
    [trainInit EXCEPT !.trainingStatus = "training", !.trainingProgress = Ratio(100, 1)]

\* startTraining resumed after the final wait, to its end; its locals are gone.
trainingFinal(t) ==
    [trainInit EXCEPT !.trainingStatus = "completed", !.trainingProgress = Ratio(100, 1)]

resetTraining(t) ==
    [t EXCEPT !.trainingStatus = "idle", !.trainingProgress = Ratio(0, 1),
              !.currentPerson = ""]

(***************************************************************************)
(* The store: useReducer(attendanceReducer, initialState) and dispatch.    *)
(***************************************************************************)
StoreInit ==
    /\ state = initialState
    /\ prev = initialState
    /\ last = [type |-> "none"]
    /\ at = Undefined
    /\ nAdd = 0
    /\ nDel = 0
    /\ nDelHit = 0
    /\ steps = 0

Init ==
    /\ StoreInit
    /\ reg = regInit
    /\ calc = calcInit
    /\ train = trainInit
    /\ att = attInit

HasId(seq, id) == \E i \in DOMAIN seq : seq[i].id = id

\* dispatch(action): the store replaces its snapshot by the reducer's result.
Dispatch(action, now) ==
    /\ state' = attendanceReducer(state, action, now)
    /\ prev' = state
    /\ last' = action
    /\ at' = now
    /\ steps' = steps + 1
    /\ nAdd' = IF action.type = "ADD_PERSON" THEN nAdd + 1 ELSE nAdd
    /\ nDel' = IF action.type = "DELETE_PERSON" THEN nDel + 1 ELSE nDel
    /\ nDelHit' = IF action.type = "DELETE_PERSON" /\ HasId(state.persons, action.payload)
                  THEN nDelHit + 1 ELSE nDelHit

AddPerson ==
    \E p \in PersonPayloads, now \in Clock :
        /\ steps < MaxSteps
        /\ Dispatch([type |-> "ADD_PERSON", payload |-> p], now)
        /\ UNCHANGED viewVars

UpdatePerson ==
    \E id \in PersonIds, u \in PersonPatches, now \in Clock :
        /\ steps < MaxSteps
        /\ Dispatch([type |-> "UPDATE_PERSON", payload |-> [id |-> id, updates |-> u]], now)
        /\ UNCHANGED viewVars

DeletePerson ==
    \E id \in PersonIds, now \in Clock :
        /\ steps < MaxSteps
        /\ Dispatch([type |-> "DELETE_PERSON", payload |-> id], now)
        /\ UNCHANGED viewVars

AddAttendanceRecord ==
    \E r \in AttendancePayloads, now \in Clock :
        /\ steps < MaxSteps
        /\ Dispatch([type |-> "ADD_ATTENDANCE_RECORD", payload |-> r], now)
        /\ UNCHANGED viewVars

UpdateAttendanceRecord ==
    \E id \in AttendanceIds, u \in AttendancePatches, now \in Clock :
        /\ steps < MaxSteps
        /\ Dispatch([type |-> "UPDATE_ATTENDANCE_RECORD",
                  payload |-> [id |-> id, updates |-> u]], now)
        /\ UNCHANGED viewVars

StartTrainingSession ==
    \E t \in TrainingPayloads, now \in Clock :
        /\ steps < MaxSteps
        /\ Dispatch([type |-> "START_TRAINING_SESSION", payload |-> t], now)
        /\ UNCHANGED viewVars

UpdateTrainingSession ==
    \E id \in TrainingIds, u \in TrainingPatches, now \in Clock :
        /\ steps < MaxSteps
        /\ Dispatch([type |-> "UPDATE_TRAINING_SESSION",
                  payload |-> [id |-> id, updates |-> u]], now)
        /\ UNCHANGED viewVars

StartAttendanceSession ==
    \E d \in LectureDurations, now \in Clock :
        /\ steps < MaxSteps
        /\ Dispatch([type |-> "START_ATTENDANCE_SESSION",
                  payload |-> [lectureDuration |-> d]], now)
        /\ UNCHANGED viewVars

EndAttendanceSession ==
    \E now \in Clock :
        /\ steps < MaxSteps
        /\ Dispatch([type |-> "END_ATTENDANCE_SESSION"], now)
        /\ UNCHANGED viewVars

\* An action no case of the reducer handles: the declared UPDATE_STATISTICS, and
\* a type outside AttendanceAction.
UnhandledAction ==
    \E ty \in UnhandledTypes, now \in Clock :
        /\ steps < MaxSteps
        /\ Dispatch([type |-> ty], now)
        /\ UNCHANGED viewVars

Next ==
    \/ AddPerson
    \/ UpdatePerson
    \/ DeletePerson
    \/ AddAttendanceRecord
    \/ UpdateAttendanceRecord
    \/ StartTrainingSession
    \/ UpdateTrainingSession
    \/ StartAttendanceSession
    \/ EndAttendanceSession
    \/ UnhandledAction

Spec == Init /\ [][Next]_vars

(***************************************************************************)
(* The Add Person view's handlers and timer.                               *)
(***************************************************************************)
\* The number of capture runs that may complete.
MaxRuns == 2

FormIds == { <<"4">>, <<"1", "a">> }

FormNames == { <<"D", "a", "n", "a">>, <<"J", "3">> }

FormEmails == { <<>>, <<"x">> }

\* The router renders the view.
RegMount ==
    /\ ~reg.mounted
    /\ reg' = regInit
    /\ UNCHANGED storeVars
    /\ UNCHANGED notReg

\* The router leaves the view: the effect's cleanup runs stopCamera, which
\* clears the interval, and the component's state is discarded.
RegUnmount ==
    /\ reg.mounted
    /\ reg' = [regInit EXCEPT !.mounted = FALSE,
                              !.interval = regStopCamera(reg).interval,
                              !.did = "unmount"]
    /\ UNCHANGED storeVars
    /\ UNCHANGED notReg

\* The onChange handlers of the form's inputs.
EditForm ==
    /\ reg.mounted
    /\ \/ \E v \in FormIds : reg' = [reg EXCEPT !.formData.id = v, !.did = "edit"]
       \/ \E v \in FormNames : reg' = [reg EXCEPT !.formData.name = v, !.did = "edit"]
       \/ \E v \in FormEmails : reg' = [reg EXCEPT !.formData.email = v, !.did = "edit"]
    /\ UNCHANGED storeVars
    /\ UNCHANGED notReg

RegStartCamera ==
    /\ reg.mounted
    /\ ~reg.showCamera
    /\ reg' = regStartCamera(reg)
    /\ UNCHANGED storeVars
    /\ UNCHANGED notReg

RegStopCamera ==
    /\ reg.mounted
    /\ reg.showCamera
    /\ ~reg.isCapturing
    /\ reg' = regStopCamera(reg)
    /\ UNCHANGED storeVars
    /\ UNCHANGED notReg

StartCapturing ==
    /\ reg.mounted
    /\ reg.showCamera
    /\ ~reg.isCapturing
    /\ steps < MaxRuns
    /\ reg' = startCapturing(reg)
    /\ UNCHANGED storeVars
    /\ UNCHANGED notReg

StopCapture ==
    /\ reg.mounted
    /\ reg.isCapturing
    /\ reg' = stopCapture(reg)
    /\ UNCHANGED storeVars
    /\ UNCHANGED notReg

\* One tick of the capture interval: the updater passed to setCapturedImages.
\* On the last tick it clears the interval and runs handleSavePerson, which
\* dispatches ADD_PERSON, stops the camera and navigates away.
CaptureTick ==
    /\ reg.interval
    /\ LET newCount == reg.capturedImages + 1 IN
       IF newCount >= TotalImages
       THEN /\ \E now \in Clock :
                  Dispatch([type |-> "ADD_PERSON", payload |-> savedPerson(reg, now)], now)
            /\ reg' = [regInit EXCEPT !.mounted = FALSE,
                                      !.interval = regStopCamera(reg).interval,
                                      !.capturedImages = newCount,
                                      !.did = "handleSavePerson"]
       ELSE /\ reg' = [reg EXCEPT !.capturedImages = newCount, !.did = "tick"]
            /\ UNCHANGED storeVars
    /\ UNCHANGED notReg

RegisterNext ==
    \/ RegMount
    \/ RegUnmount
    \/ EditForm
    \/ RegStartCamera
    \/ RegStopCamera
    \/ StartCapturing
    \/ StopCapture
    \/ CaptureTick

\* The application with only the Add Person view in use.
SpecRegister == Init /\ [][RegisterNext]_vars

(***************************************************************************)
(* validateForm on its own: any form contents, then Start Capture.         *)
(***************************************************************************)
\* Longest identifier and name, and longest email, that are enumerated.
MaxFieldLen == 1

MaxEmailLen == 5

\* All strings over an alphabet up to a length.
Strs(alphabet, n) == UNION {[1..k -> alphabet] : k \in 0..n}

ValidateIds ==
    Strs({"1", "a", " "}, MaxFieldLen)
        \cup { <<"1", "2", "a">>, <<"1", "2", "3">>, <<" ", "7">> }

ValidateNames ==
    Strs({"a", "3", " "}, MaxFieldLen)
        \cup { <<"J", "o", "h", "n", " ", "D", "o", "e">>, <<"J", "o", "h", "n", "3">> }

ValidateEmails ==
    Strs({"a", "@", "."}, MaxEmailLen)
        \cup { <<"n", "o", "t", "-", "a", "n", "-", "e", "m", "a", "i", "l">>,
               <<"a", " ", "@", "b", ".", "c">>,
               <<"j", "@", "e", "x", ".", "c", "o", ".", "u", "k">> }

\* The view with the camera shown and the form filled in.
ValidateInit ==
    /\ StoreInit
    /\ \E i \in ValidateIds, n \in ValidateNames, e \in ValidateEmails :
          reg = [regInit EXCEPT !.showCamera = TRUE,
                                !.formData = [id |-> i, name |-> n, email |-> e,
                                              department |-> ""],
                                !.did = "edit"]
    /\ calc = calcInit
    /\ train = trainInit
    /\ att = attInit

ValidateNext == StartCapturing

SpecValidate == ValidateInit /\ [][ValidateNext]_vars

(***************************************************************************)
(* calculateDuration on its own: two times of day, then the call.          *)
(***************************************************************************)
Hours == {0, 9, 10, 23}

Minutes == {0, 30, 59}

Seconds == {0, 15, 59}

TimesOfDay == Hours \X Minutes \X Seconds

DurationInit ==
    /\ StoreInit
    /\ reg = regInit
    /\ train = trainInit
    /\ att = attInit
    /\ \E i, o \in TimesOfDay :
          calc = [calcInit EXCEPT !.inTime = i, !.outTime = o,
                                  !.clockIn = FormatTime(i[1], i[2], i[3]),
                                  !.clockOut = FormatTime(o[1], o[2], o[3])]

ComputeDuration ==
    /\ ~calc.done
    /\ calc' = [calc EXCEPT !.duration = calculateDuration(calc.clockIn, calc.clockOut),
                            !.done = TRUE]
    /\ UNCHANGED <<storeVars, notCalc>>

DurationNext == ComputeDuration

SpecDuration == DurationInit /\ [][DurationNext]_vars

(***************************************************************************)
(* The Train Images view and the roster it is opened with.                 *)
(***************************************************************************)
\* The Start Training button: shown while idle, disabled without active persons.
StartTraining ==
    /\ train.mounted
    /\ train.trainingStatus = "idle"
    /\ FilterActive(state.persons) # <<>>
    /\ train' = startTraining(train, state)
    /\ UNCHANGED <<storeVars, notTrain>>

TrainingStep ==
    /\ train.mounted
    /\ train.pc = "step"
    /\ train' = trainingStep(train)
    /\ UNCHANGED <<storeVars, notTrain>>

TrainingFinal ==
    /\ train.mounted
    /\ train.pc = "final"
    /\ train' = trainingFinal(train)
    /\ UNCHANGED <<storeVars, notTrain>>

\* The Train Again button.
ResetTraining ==
    /\ train.mounted
    /\ train.trainingStatus \in {"completed", "error"}
    /\ train' = resetTraining(train)
    /\ UNCHANGED <<storeVars, notTrain>>

\* Roster changes made on other pages, before the training page is used.
RosterChange ==
    /\ train.trainingStatus = "idle"
    /\ \/ UpdatePerson
       \/ DeletePerson

TrainNext ==
    \/ StartTraining
    \/ TrainingStep
    \/ TrainingFinal
    \/ ResetTraining
    \/ RosterChange

SpecTrain == Init /\ [][TrainNext]_vars

\* Seed persons deleted before the training page is used; the roster can
\* become empty.
IdleRosterDelete ==
    /\ train = trainInit
    /\ \E id \in SeedIds, now \in Clock :
          /\ steps < MaxSteps
          /\ Dispatch([type |-> "DELETE_PERSON", payload |-> id], now)
    /\ UNCHANGED viewVars

TrainRunNext ==
    \/ StartTraining
    \/ TrainingStep
    \/ TrainingFinal
    \/ ResetTraining
    \/ IdleRosterDelete

\* The training page alone, with the timers of a running startTraining
\* firing for as long as it waits on them.
SpecTrainFair ==
    Init /\ [][TrainRunNext]_vars /\ WF_train(TrainingStep) /\ WF_train(TrainingFinal)

(***************************************************************************)
(* The Train Images view when the router leaves it.                        *)
(***************************************************************************)
\* The component's state is discarded; startTraining has no cleanup, so a
\* running call keeps its locals and its pending timer.
TrainUnmount ==
    /\ train.mounted
    /\ train' = [trainInit EXCEPT !.mounted = FALSE, !.persons = train.persons,
                                  !.totalSteps = train.totalSteps,
                                  !.currentStep = train.currentStep,
                                  !.k = train.k, !.i = train.i, !.pc = train.pc]
    /\ UNCHANGED <<storeVars, notTrain>>

\* A 200 ms timer of the view that was left fires: the loop advances, and
\* React drops the state updates of the unmounted component.
OrphanStep ==
    /\ ~train.mounted
    /\ train.pc = "step"
    /\ LET t == trainingStep(train)
       IN train' = [train EXCEPT !.currentStep = t.currentStep, !.k = t.k,
                                 !.i = t.i, !.pc = t.pc]
    /\ UNCHANGED <<storeVars, notTrain>>

\* The final timer of the view that was left fires: startTraining returns.
OrphanFinal ==
    /\ ~train.mounted
    /\ train.pc = "final"
    /\ train' = [trainInit EXCEPT !.mounted = FALSE]
    /\ UNCHANGED <<storeVars, notTrain>>

TeardownNext ==
    \/ StartTraining
    \/ TrainingStep
    \/ TrainingFinal
    \/ ResetTraining
    \/ RosterChange
    \/ TrainUnmount
    \/ OrphanStep
    \/ OrphanFinal

SpecTeardown == Init /\ [][TeardownNext]_vars

(***************************************************************************)
(* The Mark Attendance view. Each handler runs at a later instant than the *)
(* one before it.                                                          *)
(***************************************************************************)
Later == {k \in DOMAIN Instants : k > att.clock}

\* Typing into the lecture duration field of the modal.
SetLectureDuration ==
    /\ att.showDurationModal
    /\ \E d \in LectureDurations \cup {""} :
          /\ d # att.lectureDuration
          /\ att' = [att EXCEPT !.lectureDuration = d]
    /\ UNCHANGED <<storeVars, notAtt>>

NoDurationAlert == "Please enter lecture duration"

NoRecordAlert == "No clock-in record found for today"

HandleStartSession ==
    /\ att.showDurationModal
    /\ IF ~Truthy(att.lectureDuration)
       THEN /\ att' = [att EXCEPT !.alert = NoDurationAlert]
            /\ UNCHANGED storeVars
       ELSE \E k \in Later, ok \in BOOLEAN :
              /\ Dispatch([type |-> "START_ATTENDANCE_SESSION",
                           payload |-> [lectureDuration |-> att.lectureDuration]],
                          Instants[k].iso)
              /\ att' = [attStartCamera(att, ok) EXCEPT
                            !.showDurationModal = FALSE, !.clock = k,
                            !.alert = IF ok THEN att.alert
                                      ELSE "Unable to access camera. Please check permissions."]
    /\ UNCHANGED notAtt

\* The Start Camera button, shown while not recording.
AttStartCamera ==
    /\ ~att.showDurationModal
    /\ ~att.isRecording
    /\ att' = attStartCamera(att, TRUE)
    /\ UNCHANGED <<storeVars, notAtt>>

AttStopCamera ==
    /\ ~att.showDurationModal
    /\ att.isRecording
    /\ att' = attStopCamera(att)
    /\ UNCHANGED <<storeVars, notAtt>>

\* One firing of the detection interval, which runs while recording.
Detect ==
    /\ att.isRecording
    /\ \E gate, pick, blink \in RandomDraws, c \in Confidences :
          att' = detect(att, state.persons, gate, pick, c, blink)
    /\ UNCHANGED <<storeVars, notAtt>>

HandleClockIn ==
    /\ ~att.showDurationModal
    /\ att.detectedPerson # Null
    /\ \E k \in Later :
          /\ Dispatch([type |-> "ADD_ATTENDANCE_RECORD", payload |-> clockInRecord(att, k)],
                      Instants[k].iso)
          /\ att' = [att EXCEPT !.clock = k,
                                !.alert = att.detectedPerson.name \o " clocked in successfully!"]
    /\ UNCHANGED notAtt

HandleClockOut ==
    /\ ~att.showDurationModal
    /\ att.detectedPerson # Null
    /\ \E k \in Later :
          LET e == findExistingRecord(state.attendanceRecords, att, k)
          IN /\ IF e # 0
                THEN Dispatch([type |-> "UPDATE_ATTENDANCE_RECORD",
                               payload |-> [id |-> state.attendanceRecords[e].id,
                                            updates |-> clockOutUpdates(
                                                state.attendanceRecords[e], k)]],
                              Instants[k].iso)
                ELSE UNCHANGED storeVars
             /\ att' = [att EXCEPT
                           !.clock = k,
                           !.alert = IF e # 0
                                     THEN att.detectedPerson.name \o " clocked out successfully!"
                                     ELSE NoRecordAlert]
    /\ UNCHANGED notAtt

HandleSaveAttendance ==
    /\ ~att.showDurationModal
    /\ \E k \in Later :
          /\ Dispatch([type |-> "END_ATTENDANCE_SESSION"], Instants[k].iso)
          /\ att' = [attStopCamera(att) EXCEPT !.clock = k,
                                                !.alert = "Attendance saved successfully!"]
    /\ UNCHANGED notAtt

AttendNext ==
    \/ SetLectureDuration
    \/ HandleStartSession
    \/ AttStartCamera
    \/ AttStopCamera
    \/ Detect
    \/ HandleClockIn
    \/ HandleClockOut
    \/ HandleSaveAttendance

SpecAttend == Init /\ [][AttendNext]_vars

(***************************************************************************)
(* The detection loop of the Mark Attendance view, over any roster that    *)
(* deletions leave before the view is used.                                *)
(***************************************************************************)
RosterDelete ==
    /\ att = attInit
    /\ \E id \in SeedIds, now \in Clock :
          /\ steps < MaxSteps
          /\ Dispatch([type |-> "DELETE_PERSON", payload |-> id], now)
    /\ UNCHANGED viewVars

DetectNext ==
    \/ RosterDelete
    \/ SetLectureDuration
    \/ HandleStartSession
    \/ AttStartCamera
    \/ AttStopCamera
    \/ Detect
    \/ HandleSaveAttendance

SpecDetect == Init /\ [][DetectNext]_vars

(***************************************************************************)
(* Properties of the store.                                                *)
(***************************************************************************)
SeedRosterSize == Len(initialState.persons)

\* Number of elements of seq satisfying P.
Count(seq, P(_)) == Cardinality({i \in DOMAIN seq : P(seq[i])})

\* Positions of seq whose element has the given id.
Matches(seq, id) == {i \in DOMAIN seq : seq[i].id = id}

\* C1: after any sequence of store actions from the seed state,
\* statistics.totalPersons is 3 plus the number of ADD_PERSON actions applied
\* minus the number of DELETE_PERSON actions applied, hit or miss.
C1_TotalPersonsCount ==
    state.statistics.totalPersons = SeedTotalPersons + nAdd - nDel

\* A person was added and a delete missed the roster.
C1_Witness ==
    /\ nAdd > 0
    /\ nDel > nDelHit
    /\ last.type = "DELETE_PERSON"
    /\ ~HasId(prev.persons, last.payload)

\* C2: after any sequence of store actions from the seed state, the roster's
\* size is 3 plus the number of ADD_PERSON actions minus the number of
\* DELETE_PERSON actions whose id matched a roster entry.
C2_RosterSize ==
    Len(state.persons) = SeedRosterSize + nAdd - nDelHit

\* C3: in every reachable state totalPersons is the roster's size,
\* presentToday the number of records with status Present, and totalClockOuts
\* the number of records with a clock-out time.
C3_StatisticsConsistent ==
    /\ state.statistics.totalPersons = Len(state.persons)
    /\ state.statistics.presentToday =
           Count(state.attendanceRecords, LAMBDA r : r.status = "Present")
    /\ state.statistics.totalClockOuts =
           Count(state.attendanceRecords, LAMBDA r : r.clockOutTime # Undefined)

\* C4: in every reachable state no two roster entries have the same id.
C4_UniqueIds ==
    \A i, j \in DOMAIN state.persons :
        i # j => state.persons[i].id # state.persons[j].id

\* The counters after ADD_ATTENDANCE_RECORD, with IsSet deciding when a clock
\* time counts as set.
AddRecordEffect(IsSet(_)) ==
    last.type = "ADD_ATTENDANCE_RECORD" =>
        LET r == last.payload
            D(c) == IF c THEN 1 ELSE 0
        IN /\ state.attendanceRecords = Append(prev.attendanceRecords, r)
           /\ state.statistics.totalClockIns = prev.statistics.totalClockIns
                  + D(IsSet(r.clockInTime) /\ ~IsSet(r.clockOutTime))
           /\ state.statistics.totalClockOuts = prev.statistics.totalClockOuts
                  + D(IsSet(r.clockOutTime))
           /\ state.statistics.presentToday = prev.statistics.presentToday
                  + D(r.status = "Present")
           /\ state.statistics.totalPersons = prev.statistics.totalPersons

\* C5 as stated: ADD_ATTENDANCE_RECORD appends the record, adds 1 to
\* totalClockIns iff clockInTime is set and clockOutTime unset, 1 to
\* totalClockOuts iff clockOutTime is set, 1 to presentToday iff the status is
\* Present, and leaves totalPersons; "set" meaning present in the record.
C5_Original == AddRecordEffect(LAMBDA v : v # Undefined)

\* C5 amended: the same, with "set" meaning a non-empty string (an empty
\* string counts as unset).
C5_AddRecordCounters == AddRecordEffect(LAMBDA v : v # Undefined /\ v # "")

\* A record with both clock times was appended: a clock-out, not a clock-in.
C5_Witness ==
    /\ last.type = "ADD_ATTENDANCE_RECORD"
    /\ last.payload.clockInTime = "09:00:00"
    /\ last.payload.clockOutTime = "17:00:00"
    /\ state.statistics.totalClockOuts = prev.statistics.totalClockOuts + 1
    /\ state.statistics.totalClockIns = prev.statistics.totalClockIns

\* C6: UPDATE_ATTENDANCE_RECORD changes no statistics field, whatever the
\* patch.
C6_UpdateRecordKeepsStatistics ==
    last.type = "UPDATE_ATTENDANCE_RECORD" => state.statistics = prev.statistics

\* A patch set the status of a record that was not Present to Present.
C6_Witness ==
    /\ last.type = "UPDATE_ATTENDANCE_RECORD"
    /\ "status" \in DOMAIN last.payload.updates
    /\ \E i \in DOMAIN prev.attendanceRecords :
          /\ prev.attendanceRecords[i].id = last.payload.id
          /\ prev.attendanceRecords[i].status # "Present"
          /\ state.attendanceRecords[i].status = "Present"

\* The shape of an AttendanceState.
IsSeq(x) == DOMAIN x = 1..Len(x)

WellFormed(s) ==
    /\ DOMAIN s = {"persons", "attendanceRecords", "trainingSessions",
                   "currentSession", "statistics"}
    /\ IsSeq(s.persons) /\ IsSeq(s.attendanceRecords) /\ IsSeq(s.trainingSessions)
    /\ s.currentSession.isActive \in BOOLEAN
    /\ \A c \in {"totalPersons", "presentToday", "totalClockIns", "totalClockOuts"} :
          s.statistics[c] \in Int

\* C7: every action yields a state, and an action of a type the reducer does
\* not handle yields the state it was applied to.
C7_UnhandledIsIdentity ==
    /\ WellFormed(state)
    /\ last.type \in UnhandledTypes => state = prev

\* UPDATE_STATISTICS was applied to a state other than the seed state.
C7_Witness ==
    /\ last.type = "UPDATE_STATISTICS"
    /\ prev # initialState

\* The collection an update or delete action addresses, and the id it names.
Target(s, action) ==
    CASE action.type \in {"UPDATE_PERSON", "DELETE_PERSON"} -> s.persons
      [] action.type = "UPDATE_ATTENDANCE_RECORD" -> s.attendanceRecords
      [] action.type = "UPDATE_TRAINING_SESSION" -> s.trainingSessions

TargetId(action) ==
    IF action.type = "DELETE_PERSON" THEN action.payload ELSE action.payload.id

AddressedTypes ==
    {"UPDATE_PERSON", "DELETE_PERSON", "UPDATE_ATTENDANCE_RECORD",
     "UPDATE_TRAINING_SESSION"}

\* C8: an update or delete action whose id matches no entity leaves the
\* state as it was.
C8_MissIsNoOp ==
    (/\ last.type \in AddressedTypes
     /\ ~HasId(Target(prev, last), TargetId(last)))
        => state = prev

\* C9: UPDATE_PERSON with an id in the roster gives each matching Person the
\* patch's value in every patched field and its own value in every other
\* field, leaves every other Person as it was, and keeps the roster's order
\* and length.
C9_UpdatePersonMerges ==
    (last.type = "UPDATE_PERSON" /\ HasId(prev.persons, last.payload.id)) =>
        LET u == last.payload.updates IN
        /\ Len(state.persons) = Len(prev.persons)
        /\ \A i \in DOMAIN prev.persons :
              LET old == prev.persons[i]
                  new == state.persons[i]
              IN IF old.id = last.payload.id
                 THEN /\ DOMAIN new = DOMAIN old \cup DOMAIN u
                      /\ \A f \in DOMAIN u : new[f] = u[f]
                      /\ \A f \in DOMAIN old \ DOMAIN u : new[f] = old[f]
                 ELSE new = old

\* A patch renamed one person of a roster that also holds other persons.
C9_Witness ==
    /\ last.type = "UPDATE_PERSON"
    /\ "name" \in DOMAIN last.payload.updates
    /\ \E i, j \in DOMAIN prev.persons :
          /\ prev.persons[i].id = last.payload.id
          /\ prev.persons[i].name # state.persons[i].name
          /\ prev.persons[i].email = state.persons[i].email
          /\ prev.persons[j].id # last.payload.id

\* seq without its element at position k.
RemoveAt(seq, k) == SubSeq(seq, 1, k - 1) \o SubSeq(seq, k + 1, Len(seq))

\* The first position of seq whose element has the given id.
FirstMatch(seq, id) ==
    CHOOSE k \in Matches(seq, id) : \A m \in Matches(seq, id) : k <= m

\* C10 as stated: when several entities share the addressed id, an update
\* changes only the first of them and a delete removes only the first.
C10_Original ==
    (/\ last.type \in AddressedTypes
     /\ Cardinality(Matches(Target(prev, last), TargetId(last))) > 1)
        => LET old == Target(prev, last)
               new == Target(state, last)
               k == FirstMatch(old, TargetId(last))
           IN IF last.type = "DELETE_PERSON"
              THEN new = RemoveAt(old, k)
              ELSE /\ Len(new) = Len(old)
                   /\ \A i \in DOMAIN old : i # k => new[i] = old[i]

\* C10 amended: an update merges the patch into every entity with the
\* addressed id and a delete removes every one of them; the entities with
\* another id are kept, in their order.
C10_AllMatchesAffected ==
    (/\ last.type \in AddressedTypes
     /\ Cardinality(Matches(Target(prev, last), TargetId(last))) > 1)
        => LET old == Target(prev, last)
               new == Target(state, last)
               id == TargetId(last)
           IN IF last.type = "DELETE_PERSON"
              THEN /\ ~HasId(new, id)
                   /\ Len(new) = Len(old) - Cardinality(Matches(old, id))
                   /\ \A i \in DOMAIN new :
                         \E j \in DOMAIN old :
                            /\ new[i] = old[j]
                            /\ old[j].id # id
                            /\ i = j - Cardinality({m \in Matches(old, id) : m < j})
              ELSE /\ Len(new) = Len(old)
                   /\ \A i \in DOMAIN old :
                         new[i] = IF old[i].id = id
                                  THEN Merge(old[i], last.payload.updates)
                                  ELSE old[i]

\* An update renamed the second of two persons with the same id.
C10_Witness ==
    /\ last.type = "UPDATE_PERSON"
    /\ "name" \in DOMAIN last.payload.updates
    /\ \E i, j \in DOMAIN prev.persons :
          /\ i < j
          /\ prev.persons[i].id = last.payload.id
          /\ prev.persons[j].id = last.payload.id
          /\ prev.persons[j].name # "Renamed"
          /\ state.persons[j].name = "Renamed"

\* C11: START_ATTENDANCE_SESSION, applied in any state, yields an active
\* session with the given lecture duration and the clock reading of its
\* application as start time, whatever session was there before;
\* END_ATTENDANCE_SESSION yields an inactive session without lecture duration
\* and start time.
C11_SessionStartEnd ==
    /\ last.type = "START_ATTENDANCE_SESSION" =>
           state.currentSession =
               [isActive |-> TRUE, lectureDuration |-> last.payload.lectureDuration,
                startTime |-> at]
    /\ last.type = "END_ATTENDANCE_SESSION" =>
           /\ state.currentSession.isActive = FALSE
           /\ state.currentSession.lectureDuration = Undefined
           /\ state.currentSession.startTime = Undefined

\* A session was started over an active one with another duration and start.
C11_Witness ==
    /\ last.type = "START_ATTENDANCE_SESSION"
    /\ prev.currentSession.isActive
    /\ prev.currentSession.lectureDuration # state.currentSession.lectureDuration
    /\ prev.currentSession.startTime # state.currentSession.startTime

\* C12: from any reachable state whose roster lacks id x, ADD_PERSON of a
\* person with id x gives one more entry and totalPersons + 1, and
\* DELETE_PERSON x right after it restores the roster and totalPersons.
C12_AddDeleteRoundTrip ==
    \A p \in PersonPayloads, now \in Clock :
        ~HasId(state.persons, p.id) =>
            LET s1 == attendanceReducer(state, [type |-> "ADD_PERSON", payload |-> p], now)
                s2 == attendanceReducer(s1, [type |-> "DELETE_PERSON", payload |-> p.id], now)
            IN /\ Len(s1.persons) = Len(state.persons) + 1
               /\ s1.statistics.totalPersons = state.statistics.totalPersons + 1
               /\ s2.persons = state.persons
               /\ s2.statistics.totalPersons = state.statistics.totalPersons

\* Person "4" was added to the seed roster (4 entries, totalPersons 4) and
\* deleted again (3 entries, totalPersons 3).
C12_Witness ==
    /\ last.type = "DELETE_PERSON"
    /\ last.payload = "4"
    /\ Len(prev.persons) = SeedRosterSize + 1
    /\ prev.statistics.totalPersons = SeedTotalPersons + 1
    /\ prev.persons[Len(prev.persons)].id = "4"
    /\ state.persons = initialState.persons
    /\ state.statistics.totalPersons = SeedTotalPersons

\* The reducer's result does not depend on when the action is applied.
TimeIndependent(action) ==
    \A t1, t2 \in Clock :
        attendanceReducer(state, action, t1) = attendanceReducer(state, action, t2)

\* C13: the reducer is a function of the state and the action alone: applied
\* to the same state, the same action gives the same state at any time.
C13_Pure ==
    /\ \A p \in PersonPayloads : TimeIndependent([type |-> "ADD_PERSON", payload |-> p])
    /\ \A id \in PersonIds : TimeIndependent([type |-> "DELETE_PERSON", payload |-> id])
    /\ \A r \in AttendancePayloads :
          TimeIndependent([type |-> "ADD_ATTENDANCE_RECORD", payload |-> r])
    /\ \A d \in LectureDurations :
          TimeIndependent([type |-> "START_ATTENDANCE_SESSION",
                           payload |-> [lectureDuration |-> d]])
    /\ TimeIndependent([type |-> "END_ATTENDANCE_SESSION"])

\* C14: attendanceRecords grows by exactly 1 on ADD_ATTENDANCE_RECORD and
\* trainingSessions by exactly 1 on START_TRAINING_SESSION; every other action
\* keeps their lengths, so neither ever shrinks.
C14_AppendOnly ==
    /\ Len(state.attendanceRecords) = Len(prev.attendanceRecords)
           + (IF last.type = "ADD_ATTENDANCE_RECORD" THEN 1 ELSE 0)
    /\ Len(state.trainingSessions) = Len(prev.trainingSessions)
           + (IF last.type = "START_TRAINING_SESSION" THEN 1 ELSE 0)

\* A training session was appended to a list that already held one.
C14_Witness ==
    /\ last.type = "START_TRAINING_SESSION"
    /\ Len(prev.trainingSessions) > 0
    /\ Len(state.trainingSessions) = Len(prev.trainingSessions) + 1

\* C15: UPDATE_PERSON, START_TRAINING_SESSION, UPDATE_TRAINING_SESSION,
\* START_ATTENDANCE_SESSION and END_ATTENDANCE_SESSION keep the statistics, and
\* an action keeps every part of the state (roster, attendance records,
\* training sessions, current session) that it does not target.
C15_Frame ==
    /\ last.type \in {"UPDATE_PERSON", "START_TRAINING_SESSION",
                      "UPDATE_TRAINING_SESSION", "START_ATTENDANCE_SESSION",
                      "END_ATTENDANCE_SESSION"}
           => state.statistics = prev.statistics
    /\ last.type \notin {"ADD_PERSON", "UPDATE_PERSON", "DELETE_PERSON"}
           => state.persons = prev.persons
    /\ last.type \notin {"ADD_ATTENDANCE_RECORD", "UPDATE_ATTENDANCE_RECORD"}
           => state.attendanceRecords = prev.attendanceRecords
    /\ last.type \notin {"START_TRAINING_SESSION", "UPDATE_TRAINING_SESSION"}
           => state.trainingSessions = prev.trainingSessions
    /\ last.type \notin {"START_ATTENDANCE_SESSION", "END_ATTENDANCE_SESSION"}
           => state.currentSession = prev.currentSession

\* An active session was ended while a record was counted present today.
C15_Witness ==
    /\ last.type = "END_ATTENDANCE_SESSION"
    /\ prev.currentSession.isActive
    /\ prev.statistics.presentToday > 0
    /\ Len(prev.attendanceRecords) > 0

(***************************************************************************)
(* Properties of the Add Person view.                                      *)
(***************************************************************************)
\* Non-blank and digits only.
IdAccepted(cs) ==
    /\ \E i \in DOMAIN cs : cs[i] \notin Whitespace
    /\ \A i \in DOMAIN cs : cs[i] \in Digits

\* Non-blank and letters and whitespace only.
NameAccepted(cs) ==
    /\ \E i \in DOMAIN cs : cs[i] \notin Whitespace
    /\ \A i \in DOMAIN cs : cs[i] \in Letters \cup Whitespace

\* Empty, or local@domain.tld: no whitespace, a single "@" that is not first,
\* and after it a "." that neither follows the "@" directly nor ends the string.
EmailAccepted(cs) ==
    \/ cs = <<>>
    \/ /\ \A i \in DOMAIN cs : cs[i] \notin Whitespace
       /\ Cardinality({i \in DOMAIN cs : cs[i] = "@"}) = 1
       /\ \E p, q \in DOMAIN cs :
             /\ cs[p] = "@"
             /\ cs[q] = "."
             /\ 1 < p
             /\ p + 1 < q
             /\ q < Len(cs)

\* C16: validation returns an error for exactly the offending fields: the
\* identifier unless it is non-blank and all digits, the name unless it is
\* non-blank and letters and whitespace only, the email unless it is empty or
\* of the shape local@domain.tld; so it returns no errors iff all three pass.
C16_ValidationRules ==
    reg.did = "startCapturing" =>
        /\ "id" \in DOMAIN reg.errors <=> ~IdAccepted(reg.formData.id)
        /\ "name" \in DOMAIN reg.errors <=> ~NameAccepted(reg.formData.name)
        /\ "email" \in DOMAIN reg.errors <=> ~EmailAccepted(reg.formData.email)
        /\ reg.errors = NoErrors <=>
               /\ IdAccepted(reg.formData.id)
               /\ NameAccepted(reg.formData.name)
               /\ EmailAccepted(reg.formData.email)

\* Id "12a" with name "John Doe" and no email was validated: one error, on
\* the id.
C16_Witness ==
    /\ reg.did = "startCapturing"
    /\ reg.formData.id = <<"1", "2", "a">>
    /\ reg.formData.name = <<"J", "o", "h", "n", " ", "D", "o", "e">>
    /\ reg.formData.email = <<>>
    /\ DOMAIN reg.errors = {"id"}

\* C17: when validation reports an error at a capture request, no capture
\* timer is started; a running capture timer saves a form that passed
\* validation; so every Person the view adds to the store has an id and a
\* name that passed validation.
C17_SubmissionBlocked ==
    /\ (reg.did = "startCapturing" /\ reg.errors # NoErrors) =>
           (~reg.interval /\ ~reg.isCapturing)
    /\ reg.interval =>
           /\ IdAccepted(reg.closure.id)
           /\ NameAccepted(reg.closure.name)
           /\ EmailAccepted(reg.closure.email)
    /\ last.type = "ADD_PERSON" =>
           \E i \in FormIds, n \in FormNames :
              /\ IdAccepted(i)
              /\ NameAccepted(n)
              /\ last.payload.id = Text(i)
              /\ last.payload.name = Text(n)

\* After one person was registered, a capture request with an invalid form
\* was turned down.
C17_Witness ==
    /\ nAdd > 0
    /\ last.type = "ADD_PERSON"
    /\ reg.did = "startCapturing"
    /\ reg.errors # NoErrors
    /\ reg.showCamera

(***************************************************************************)
(* Properties of the Mark Attendance view.                                 *)
(***************************************************************************)
SecondsOfDay(hms) == hms[1] * 3600 + hms[2] * 60 + hms[3]

\* C18: for a clock-out not earlier than the clock-in, the duration is the
\* difference in seconds written as zero-padded HH:MM:SS, so that clock-in
\* plus duration is clock-out; 09:00:00 to 10:30:15 gives 01:30:15.
C18_Duration ==
    (calc.done /\ SecondsOfDay(calc.inTime) <= SecondsOfDay(calc.outTime)) =>
        LET d == SecondsOfDay(calc.outTime) - SecondsOfDay(calc.inTime)
            h == d \div 3600
            m == (d % 3600) \div 60
            s == d % 60
        IN /\ Len(calc.duration) = 8
           /\ calc.duration = FormatTime(h, m, s)
           /\ SecondsOfDay(calc.inTime) + SecondsOfDay(<<h, m, s>>)
                  = SecondsOfDay(calc.outTime)
           /\ (calc.inTime = <<9, 0, 0>> /\ calc.outTime = <<10, 30, 15>>) =>
                  calc.duration = <<"0", "1", ":", "3", "0", ":", "1", "5">>

\* The duration from 09:00:00 to 10:30:15 was computed.
C18_Witness ==
    /\ calc.done
    /\ calc.clockIn = <<"0", "9", ":", "0", "0", ":", "0", "0">>
    /\ calc.clockOut = <<"1", "0", ":", "3", "0", ":", "1", "5">>
    /\ calc.duration = <<"0", "1", ":", "3", "0", ":", "1", "5">>

\* C20: each (person, date) pair has at most one open attendance record, one
\* with a clock-in time and no clock-out time.
IsOpen(r) == Truthy(r.clockInTime) /\ ~Truthy(r.clockOutTime)

C20_OneOpenRecord ==
    \A i, j \in DOMAIN state.attendanceRecords :
        LET a == state.attendanceRecords[i]
            b == state.attendanceRecords[j]
        IN (IsOpen(a) /\ IsOpen(b) /\ a.personId = b.personId /\ a.date = b.date)
               => i = j

(***************************************************************************)
(* Properties of the Train Images view.                                    *)
(***************************************************************************)
\* C19: while a training run processes a person, the store holds an
\* in-progress TrainingSession for that person.
C19_RunCreatesSession ==
    train.pc = "step" =>
        \E i \in DOMAIN state.trainingSessions :
            /\ state.trainingSessions[i].personId = train.persons[train.k].id
            /\ state.trainingSessions[i].status = "in-progress"

(***************************************************************************)
(* Properties of the capture run of the Add Person view.                   *)
(***************************************************************************)
\* A step that is one tick of the capture interval.
IsCaptureTick == reg.interval /\ reg'.did \in {"tick", "handleSavePerson"}

\* C21: a capture run starts its counter at 0 and adds 1 per tick; ADD_PERSON
\* is dispatched on the tick at which the counter reaches TotalImages and on
\* no other step, that tick clears the timer, and the counter never exceeds
\* TotalImages; a stopped run has no timer and dispatches nothing.
C21_CaptureRun ==
    [][ /\ (reg'.did = "startCapturing" /\ reg'.interval) => reg'.capturedImages = 0
        /\ IsCaptureTick =>
              /\ reg.isCapturing
              /\ reg'.capturedImages = reg.capturedImages + 1
              /\ reg'.capturedImages <= TotalImages
              /\ (reg'.capturedImages = TotalImages) = (nAdd' = nAdd + 1)
              /\ (reg'.capturedImages = TotalImages) => ~reg'.interval
        /\ nAdd' # nAdd =>
              /\ IsCaptureTick
              /\ nAdd' = nAdd + 1
              /\ last'.type = "ADD_PERSON"
        /\ reg'.did = "stopCapture" => (~reg'.interval /\ nAdd' = nAdd)
      ]_vars

\* A run reached the target: the counter is TotalImages, the timer is cleared
\* and one person was added.
C21_Witness ==
    /\ reg.did = "handleSavePerson"
    /\ reg.capturedImages = TotalImages
    /\ ~reg.interval
    /\ nAdd = 1
    /\ last.type = "ADD_PERSON"

(***************************************************************************)
(* Properties of the detection loop of the Mark Attendance view.           *)
(***************************************************************************)
\* C22: the detection interval runs, which it does exactly while isRecording,
\* only while the attendance session is active.
C22_DetectionOnlyInSession == att.isRecording => state.currentSession.isActive

\* A step that is one firing of the detection interval.
IsDetectTick ==
    /\ att.isRecording
    /\ att'.isRecording
    /\ att'.clock = att.clock
    /\ att' # att

\* C23: after a detection tick the detection is cleared (no person,
\* confidence 0, no blink) or is a person of the roster with an integer
\* confidence in 70..100; with an empty roster it is cleared.
C23_DetectionResult ==
    [][ IsDetectTick =>
          /\ \/ /\ att'.detectedPerson = Null
                /\ att'.confidence = 0
                /\ ~att'.blinkDetected
             \/ /\ \E i \in DOMAIN state.persons : att'.detectedPerson = state.persons[i]
                /\ att'.confidence \in 70..100
          /\ state.persons = <<>> => att'.detectedPerson = Null
      ]_vars

\* A person of the roster is detected with the largest confidence drawn.
C23_Witness ==
    /\ att.isRecording
    /\ \E i \in DOMAIN state.persons : att.detectedPerson = state.persons[i]
    /\ att.confidence = 99
    /\ att.blinkDetected

(***************************************************************************)
(* Properties of the training run of the Train Images view.                *)
(***************************************************************************)
\* p <= q for exact ratios.
RatioLeq(p, q) == p.num * q.den <= q.num * p.den

Running(t) == t.pc \in {"step", "final"}

\* C24: a run over the n persons active at its start processes them in order
\* with StepsPerPerson sub-steps each; after currentStep sub-steps the
\* percentage is currentStep / (n x StepsPerPerson) x 100, and within the run
\* it never decreases and never exceeds 100.
C24_TrainingProgress ==
    [][ /\ Running(train') =>
              LET t == train'
                  n == Len(t.persons)
              IN /\ t.trainingStatus = "training"
                 /\ t.persons = FilterActive(state'.persons)
                 /\ n > 0
                 /\ t.totalSteps = n * StepsPerPerson
                 /\ t.trainingProgress.num * t.totalSteps
                        = t.currentStep * 100 * t.trainingProgress.den
                 /\ RatioLeq(t.trainingProgress, Ratio(100, 1))
                 /\ t.pc = "step" =>
                        /\ t.k \in 1..n
                        /\ t.i \in 0..(StepsPerPerson - 1)
                        /\ t.currentStep = (t.k - 1) * StepsPerPerson + t.i
                        /\ t.currentPerson = t.persons[t.k].name
                 /\ t.pc = "final" => t.currentStep = t.totalSteps
        /\ (Running(train) /\ train' # train) =>
              /\ RatioLeq(train.trainingProgress, train'.trainingProgress)
              /\ Running(train') => train'.currentStep = train.currentStep + 1
              /\ train.pc = "step" => Running(train')
      ]_vars

\* Half way through a run over three persons: the second person's fifth
\* sub-step is done and the percentage is 50.
C24_Witness ==
    /\ train.pc = "step"
    /\ Len(train.persons) = 3
    /\ train.k = 2
    /\ train.i = 5
    /\ train.currentStep = 15
    /\ train.trainingProgress = Ratio(50, 1)

C26_NoTimerAfterTeardown == ~train.mounted => ~Running(train)

(***************************************************************************)
(* Properties of clock-in and clock-out in the Mark Attendance view.       *)
(***************************************************************************)
\* The detected person has no attendance record dated the day of instant k.
NoRecordToday(k) ==
    ~\E i \in DOMAIN state.attendanceRecords :
        /\ state.attendanceRecords[i].personId = att.detectedPerson.id
        /\ state.attendanceRecords[i].date = Instants[k].day

\* C27: a clock-out of a detected person without a record for today shows
\* the alert and dispatches nothing, so the store is unchanged; without a
\* detected person neither clock-in nor clock-out dispatches.
C27_ClockOutWithoutRecord ==
    [][ /\ (steps' # steps /\ last'.type \in {"ADD_ATTENDANCE_RECORD",
                                             "UPDATE_ATTENDANCE_RECORD"}) =>
              att.detectedPerson # Null
        /\ (steps' # steps /\ last'.type = "UPDATE_ATTENDANCE_RECORD") =>
              ~NoRecordToday(att'.clock)
        /\ (att'.clock # att.clock /\ steps' = steps) =>
              /\ att.detectedPerson # Null
              /\ NoRecordToday(att'.clock)
              /\ att'.alert = "No clock-in record found for today"
              /\ UNCHANGED storeVars
        /\ (att'.clock # att.clock /\ att'.alert = "No clock-in record found for today") =>
              UNCHANGED storeVars
      ]_vars

\* The alert was shown for a detected person while the store held no record.
C27_Witness ==
    /\ att.alert = "No clock-in record found for today"
    /\ state.attendanceRecords = <<>>
    /\ last.type = "START_ATTENDANCE_SESSION"
    /\ att.clock >= 2

\* C28: with the view's clock-in and clock-out as the only writers,
\* totalClockIns and presentToday equal the number of attendance records and
\* totalClockOuts is 0 whatever clock-outs succeeded.
C28_WiredStatistics ==
    /\ state.statistics.totalClockIns = Len(state.attendanceRecords)
    /\ state.statistics.presentToday = Len(state.attendanceRecords)
    /\ state.statistics.totalClockOuts = 0

\* Two clock-ins and a successful clock-out.
C28_Witness ==
    /\ Len(state.attendanceRecords) = 2
    /\ \E i \in DOMAIN state.attendanceRecords :
          Truthy(state.attendanceRecords[i].clockOutTime)
    /\ last.type = "UPDATE_ATTENDANCE_RECORD"
    /\ state.statistics.totalClockIns = 2

\* Record i precedes record j for the same person and date.
EarlierSame(records, i, j) ==
    /\ i < j
    /\ records[i].personId = records[j].personId
    /\ records[i].date = records[j].date

\* C29: a clock-out patches the earliest record of the person and day,
\* whether or not it has a clock-out time already; a later record of the
\* same person and day never gets a clock-out time.
C29_FirstRecordPatched ==
    /\ \A j \in DOMAIN state.attendanceRecords :
          Truthy(state.attendanceRecords[j].clockOutTime) =>
              ~\E i \in DOMAIN state.attendanceRecords :
                  EarlierSame(state.attendanceRecords, i, j)
    /\ last.type = "UPDATE_ATTENDANCE_RECORD" =>
          \E e \in DOMAIN prev.attendanceRecords :
              /\ prev.attendanceRecords[e].id = last.payload.id
              /\ ~\E i \in DOMAIN prev.attendanceRecords :
                     EarlierSame(prev.attendanceRecords, i, e)
              /\ state.attendanceRecords[e].clockOutTime = last.payload.updates.clockOutTime
              /\ \A j \in DOMAIN state.attendanceRecords :
                     j # e => state.attendanceRecords[j] = prev.attendanceRecords[j]

\* After two clock-ins of one person on one day a clock-out has patched the
\* first record and left the second open.
C29_Witness ==
    /\ Len(state.attendanceRecords) = 2
    /\ EarlierSame(state.attendanceRecords, 1, 2)
    /\ Truthy(state.attendanceRecords[1].clockOutTime)
    /\ ~Truthy(state.attendanceRecords[2].clockOutTime)
    /\ last.type = "UPDATE_ATTENDANCE_RECORD"

(***************************************************************************)
(* Properties of the current session.                                      *)
(***************************************************************************)
\* C30: currentSession has a start time and a lecture duration exactly when
\* it is active.
C30_SessionFields ==
    /\ state.currentSession.isActive = (state.currentSession.startTime # Undefined)
    /\ state.currentSession.isActive = (state.currentSession.lectureDuration # Undefined)

\* A session was started and then ended.
C30_Witness ==
    /\ last.type = "END_ATTENDANCE_SESSION"
    /\ prev.currentSession.isActive
    /\ prev.currentSession.startTime # Undefined
    /\ ~state.currentSession.isActive
    /\ state.currentSession.startTime = Undefined

====
